---- MODULE Spec2Model ----
(***************************************************************************)
(* Model of src/preprocess/dataset.py: DatasetVoiceBank.audio_process and  *)
(* DatasetVoiceBank.create_tf_record (chunked, optionally pooled,          *)
(* preprocessing of clean/noisy audio pairs into one record file per       *)
(* segment).                                                               *)
(*                                                                         *)
(* A Python str is a sequence of tokens; the separators "/" and "." are    *)
(* tokens of their own, so that split and replace act on them as the code  *)
(* does.  Str joins the tokens into one string.                            *)
(***************************************************************************)
EXTENDS Integers, Sequences, FiniteSets, TLC

\* ------------------------------------------------------------------ bounds
\* most segments one audio file is cut into
MaxSeg == 2
\* most tasks the pool has taken beyond the last collected result
MaxLead == 2

\* ------------------------------------------------------- program constants
step == 100
DebugLimit == 100
PoolReserve == 3
PoolThreshold == 4

Min(a, b) == IF a < b THEN a ELSE b
Max(a, b) == IF a > b THEN a ELSE b

\* --------------------------------------------------------- string helpers
RECURSIVE Str(_)
Str(toks) == IF toks = <<>> THEN "" ELSE Head(toks) \o Str(Tail(toks))

\* s.split(sep): the pieces of s between the occurrences of sep
RECURSIVE Split(_, _)
Split(s, sep) ==
    IF \A k \in 1..Len(s) : s[k] # sep
    THEN <<s>>
    ELSE LET k == CHOOSE j \in 1..Len(s) :
                     s[j] = sep /\ \A m \in 1..(j - 1) : s[m] # sep
         IN  <<SubSeq(s, 1, k - 1)>> \o Split(SubSeq(s, k + 1, Len(s)), sep)

\* s.replace(a, b)
Replace(s, a, b) == [k \in 1..Len(s) |-> IF s[k] = a THEN b ELSE s[k]]

\* seq[-1]
Last(seq) == seq[Len(seq)]

\* str(True) / str(False)
BoolStr(b) == IF b THEN "True" ELSE "False"

\* str(x) of a number with at most one decimal, held in tenths:
\* str(1.5) = "1.5", str(2.0) = "2.0", str(2) = "2"
NumStr(x) ==
    IF x.float
    THEN <<ToString(x.tenths \div 10), ".", ToString(x.tenths % 10)>>
    ELSE <<ToString(x.tenths \div 10)>>

\* int(split * 100), split held in thousandths
SplitPercent(permille) == permille \div 10

\* ------------------------------------------------------------ the inputs
\* lengths of the clean/noisy filename lists
Lengths == {1, step - 1, step, 2 * step - 1, 2 * step + step \div 2}
Kinds == {"ok", "mismatch", "nodot", "decode", "collide"}
Positions(n) == {1, step \div 2, n} \cap 1..n
CpuCounts == {PoolThreshold, PoolThreshold + 1}
Prefix == "train"

DefaultArgs ==
    [save_path |-> "out", segment |-> [tenths |-> 20, float |-> TRUE],
     split |-> 800, normalize |-> "z-score", segment_normalization |-> FALSE,
     fft |-> FALSE, top_db |-> 20, sample_rate |-> 16000, hop_length |-> 64,
     win_length |-> 256, center |-> TRUE]

\* base filename of the i-th pair, clean side
CleanBase(in, i) ==
    IF in.pos = i /\ in.kind = "nodot" THEN <<"p" \o ToString(i)>>
    ELSE IF in.pos = i /\ in.kind = "collide" THEN <<"p1", ".", "wav", ".", "orig">>
    ELSE <<"p" \o ToString(i), ".", "wav">>

\* base filename of the i-th pair, noisy side
NoisyBase(in, i) ==
    IF in.pos = i /\ in.kind = "mismatch" THEN <<"q" \o ToString(i), ".", "wav">>
    ELSE CleanBase(in, i)

\* self.clean_filenames[i - 1], self.noisy_filenames[i - 1]
CleanFilename(in, i) == <<"data", "/", "clean", "/">> \o CleanBase(in, i)
NoisyFilename(in, i) == <<"data", "/", "noisy", "/">> \o NoisyBase(in, i)

\* read_audio raises on the audio of the i-th pair
Corrupt(in, i) == in.pos = i /\ in.kind = "decode"

\* number of segments segment_audio cuts the audio of the i-th pair into
SegCount(i) == 1 + (i % MaxSeg)

\* len(file_name_list)
ListLen(in) == IF in.debug THEN Min(in.n, DebugLimit) ELSE in.n

\* ---------------------------------------------------------- audio_process
\* faulty variant: the name is the base filename without its extension
NameOfStem(clean_filename) ==
    LET base  == Last(Split(clean_filename, "/"))
        parts == Split(base, ".")
    IN  Str(SubSeq(base, 1, Len(base) - Len(Last(parts)) - 1))

\* lines 71-75
NameOf(clean_filename) ==
    LET parts == Split(Last(Split(clean_filename, "/")), ".")
    IN  Str(parts[1]) \o "_" \o Str(parts[2])

\* faulty variant: audio_process without the assertion of lines 67-69
AudioProcessNoAssert(in, i) ==
    LET clean_filename == CleanFilename(in, i)
        parts == Split(Last(Split(clean_filename, "/")), ".")
    IN  IF Len(parts) < 2
        THEN [error |-> "IndexError", read |-> FALSE, name |-> "", segs |-> 0]
        ELSE IF Corrupt(in, i)
        THEN [error |-> "DecodeError", read |-> TRUE, name |-> "", segs |-> 0]
        ELSE [error |-> "none", read |-> TRUE,
              name |-> NameOf(clean_filename), segs |-> SegCount(i)]

\* outcome of audio_process on the i-th pair: the error it raises ("none" when
\* it returns), whether it got as far as reading the audio, and (name, data)
AudioProcess(in, i) ==
    LET clean_filename == CleanFilename(in, i)
        noisy_filename == NoisyFilename(in, i)
        parts == Split(Last(Split(clean_filename, "/")), ".")
    IN  IF Last(Split(clean_filename, "/")) # Last(Split(noisy_filename, "/"))
        THEN [error |-> "AssertionError", read |-> FALSE, name |-> "", segs |-> 0]
        ELSE IF Len(parts) < 2
        THEN [error |-> "IndexError", read |-> FALSE, name |-> "", segs |-> 0]
        ELSE IF Corrupt(in, i)
        THEN [error |-> "DecodeError", read |-> TRUE, name |-> "", segs |-> 0]
        ELSE [error |-> "none", read |-> TRUE,
              name |-> NameOf(clean_filename), segs |-> SegCount(i)]

\* ------------------------------------------------------- create_tf_record
\* faulty variant: the folder name without the top_db option
FolderNoTopDb(args, debug) ==
    LET folder == args.save_path \o "/records_seg_"
                  \o Str(Replace(NumStr(args.segment), ".", "-"))
                  \o "_train_" \o ToString(SplitPercent(args.split))
                  \o "_norm_" \o args.normalize
                  \o "_segNorm_" \o BoolStr(args.segment_normalization)
                  \o "_fft_" \o BoolStr(args.fft)
    IN  IF debug THEN folder \o "_debug" ELSE folder

\* lines 161-164
Folder(args, debug) ==
    LET folder == args.save_path \o "/records_seg_"
                  \o Str(Replace(NumStr(args.segment), ".", "-"))
                  \o "_train_" \o ToString(SplitPercent(args.split))
                  \o "_norm_" \o args.normalize
                  \o "_segNorm_" \o BoolStr(args.segment_normalization)
                  \o "_fft_" \o BoolStr(args.fft)
                  \o "_topdB_" \o ToString(args.top_db)
    IN  IF debug THEN folder \o "_debug" ELSE folder

ArgsOf(in) == [DefaultArgs EXCEPT !.fft = in.fft]

\* f"{folder}/{prefix}_{name}_{idata}.tfrecords"
TfrecordFilename(folder, prefix, name, idata) ==
    folder \o "/" \o prefix \o "_" \o name \o "_" \o ToString(idata) \o ".tfrecords"

\* range(len(file_name_list) // step)
NumSteps(len) == len \div step

\* faulty variant: every step takes file_name_list[start:end]
SubmittedNoTail(len, i, start, end) ==
    <<Min(start, len), Max(Min(start, len), Min(end, len))>>

\* faulty variant: every step takes file_name_list[start:]
SubmittedAllTail(len, i, start, end) == <<Min(start, len), len>>

\* file_name_list[start:] on the last step, file_name_list[start:end] before:
\* the slice as <<lo, hi>>, the 1-based positions lo+1..hi of the list
Submitted(len, i, start, end) ==
    IF i = NumSteps(len) - 1
    THEN <<Min(start, len), len>>
    ELSE <<Min(start, len), Max(Min(start, len), Min(end, len))>>

\* os.cpu_count() - 3 if os.cpu_count() > 4 else 1
PoolSize(cpu) == IF cpu > PoolThreshold THEN cpu - PoolReserve ELSE 1

\* the example serialized for segment idata of pair i
Example(in, i, idata) ==
    <<IF in.fft THEN "real_imag_pair" ELSE "sample_pair", i, idata>>

\* faulty variant: the existence check always answers no
IsFileNever(fs, path) == FALSE

\* os.path.isfile(tfrecord_filename)
IsFile(fs, path) == path \in DOMAIN fs

\* the inner `for idata, ... in enumerate(zip(...))` loop over one result:
\* state <<files, written, skipped>> after segments idata..segs-1
RECURSIVE WriteSegments(_, _, _, _, _)
WriteSegments(in, i, idata, folder, st) ==
    LET res  == AudioProcess(in, i)
        path == TfrecordFilename(folder, Prefix, res.name, idata)
    IN  IF idata >= res.segs THEN st
        ELSE IF IsFile(st[1], path)
        THEN WriteSegments(in, i, idata + 1, folder, <<st[1], st[2], st[3] + 1>>)
        ELSE WriteSegments(in, i, idata + 1, folder,
                 <<(path :> Example(in, i, idata)) @@ st[1],
                   Append(st[2], path), st[3]>>)

VARIABLES
    inp,      \* the lists, the configuration and the mode of the run
    pc,       \* position in create_tf_record
    run,      \* 1 for the first call of create_tf_record, 2 for the second
    dirs,     \* directories that exist
    files,    \* record files that exist: path -> content
    istep, start, end,
    sub,      \* submitted_file_name_list, as the slice <<lo, hi>>
    out,      \* results held, each the list position of its pair
    started,  \* tasks of the chunk taken by a pool worker so far
    running,  \* tasks a pool worker is executing
    w,        \* results of out already written
    error,    \* the error create_tf_record raised
    calls,    \* pairs audio_process was called on in this run
    ncalls,   \* number of audio_process calls in this run
    nreads,   \* number of pairs whose audio was read in this run
    written,  \* paths written in this run, in order
    nskipped, \* segments skipped as already existing in this run
    chunks,   \* sizes of the chunks of this run, in order
    cmp       \* two configurations and the folder names computed for them

vars == <<inp, pc, run, dirs, files, istep, start, end, sub, out, started,
          running, w, error, calls, ncalls, nreads, written, nskipped, chunks,
          cmp>>

\* the lists and options one run is given: at most one pair of the lists is
\* defective (kind, at list position pos)
ValidInput(in) ==
    /\ in.kind = "collide" => in.pos > 1
    /\ in.kind # "ok" => ~in.fft /\ ~in.debug
    /\ ~in.parallel => in.cpu = PoolThreshold

\* the state before create_tf_record is called
Idle ==
    /\ pc = "start"
    /\ run = 1
    /\ dirs = {DefaultArgs.save_path}
    /\ files = <<>>
    /\ istep = 0 /\ start = 0 /\ end = 0
    /\ sub = <<0, 0>>
    /\ out = <<>>
    /\ started = 0
    /\ running = {}
    /\ w = 0
    /\ error = "none"
    /\ calls = {}
    /\ ncalls = 0
    /\ nreads = 0
    /\ written = <<>>
    /\ nskipped = 0
    /\ chunks = <<>>

NoCmp == [a |-> DefaultArgs, b |-> DefaultArgs, debug |-> FALSE,
          fa |-> "", fb |-> "", done |-> FALSE]

Init ==
    /\ \E n \in Lengths, k \in Kinds, par \in BOOLEAN, c \in CpuCounts,
          f \in BOOLEAN, d \in BOOLEAN :
          \E p \in (IF k = "ok" THEN {0} ELSE Positions(n)) :
             /\ inp = [n |-> n, kind |-> k, pos |-> p, parallel |-> par,
                       cpu |-> c, fft |-> f, debug |-> d]
             /\ ValidInput(inp)
    /\ cmp = NoCmp
    /\ Idle

TheFolder == Folder(ArgsOf(inp), inp.debug)

\* lines 161-189: folder name, mkdir, file_name_list, start/step/end
Begin ==
    /\ pc = "start"
    /\ dirs' = IF TheFolder \notin dirs THEN dirs \cup {TheFolder} ELSE dirs
    /\ start' = 0
    /\ end' = step
    /\ istep' = 0
    /\ pc' = "loop"
    /\ UNCHANGED <<cmp, inp, run, files, sub, out, started, running, w, error,
                   calls, ncalls, nreads, written, nskipped, chunks>>

\* lines 191-195 (and 199-205 in parallel mode): next step of the for loop
LoopHead ==
    /\ pc = "loop"
    /\ IF istep < NumSteps(ListLen(inp))
       THEN /\ sub' = Submitted(ListLen(inp), istep, start, end)
            /\ chunks' = Append(chunks, sub'[2] - sub'[1])
            /\ out' = <<>>
            /\ started' = 0
            /\ running' = {}
            /\ pc' = IF inp.parallel THEN "pool" ELSE "process"
       ELSE /\ pc' = "done"
            /\ UNCHANGED <<sub, chunks, out, started, running>>
    /\ UNCHANGED <<cmp, inp, run, dirs, files, istep, start, end, w, error,
                   calls, ncalls, nreads, written, nskipped>>

\* faulty variant: an error of audio_process is caught: the results so far are
\* written and the run goes on
ProcessPairSwallow ==
    /\ pc = "process"
    /\ LET i   == sub[1] + Len(out) + 1
           res == AudioProcess(inp, i)
       IN  /\ calls' = calls \cup {i}
           /\ ncalls' = ncalls + 1
           /\ nreads' = nreads + (IF res.read THEN 1 ELSE 0)
           /\ IF res.error # "none"
              THEN /\ error' = res.error
                   /\ pc' = "write"
                   /\ w' = 0
                   /\ UNCHANGED out
              ELSE /\ out' = Append(out, i)
                   /\ w' = 0
                   /\ pc' = IF Len(out') = sub[2] - sub[1] THEN "write" ELSE "process"
                   /\ UNCHANGED error
    /\ UNCHANGED <<cmp, inp, run, dirs, files, istep, start, end, sub, started,
                   running, written, nskipped, chunks>>

\* lines 211-214: one element of the list comprehension
ProcessPair ==
    /\ pc = "process"
    /\ LET i   == sub[1] + Len(out) + 1
           res == AudioProcess(inp, i)
       IN  /\ calls' = calls \cup {i}
           /\ ncalls' = ncalls + 1
           /\ nreads' = nreads + (IF res.read THEN 1 ELSE 0)
           /\ IF res.error # "none"
              THEN /\ error' = res.error
                   /\ pc' = "failed"
                   /\ UNCHANGED <<out, w>>
              ELSE /\ out' = Append(out, i)
                   /\ w' = 0
                   /\ pc' = IF Len(out') = sub[2] - sub[1] THEN "write" ELSE "process"
                   /\ UNCHANGED error
    /\ UNCHANGED <<cmp, inp, run, dirs, files, istep, start, end, sub, started,
                   running, written, nskipped, chunks>>

\* the future of task j of the chunk is done
TaskDone(j) == j <= started /\ j \notin running

\* faulty variant: results are taken as the tasks complete: the latest task that is
\* done and not yet collected
NextPendingLatest(collected) ==
    LET ready == {j \in 1..started :
                    TaskDone(j) /\ \A k \in 1..Len(collected) : collected[k] # sub[1] + j}
    IN  IF ready = {} THEN Len(collected) + 1
        ELSE CHOOSE j \in ready : \A m \in ready : m <= j

\* the task whose result `for pending in pendings: out.append(pending.result())`
\* takes next: the one submitted after those already collected
NextPending(collected) == Len(collected) + 1

\* a pool worker takes the next queued task (submitted at line 205)
WorkerStart ==
    /\ pc \in {"pool", "abort"}
    /\ Cardinality(running) < PoolSize(inp.cpu)
    /\ started < sub[2] - sub[1]
    /\ IF pc = "pool"
       THEN started - Len(out) < MaxLead
       ELSE \A j \in running : started - j < MaxLead
    /\ started' = started + 1
    /\ running' = running \cup {started + 1}
    /\ UNCHANGED <<cmp, inp, pc, run, dirs, files, istep, start, end, sub, out, w,
                   error, calls, ncalls, nreads, written, nskipped, chunks>>

\* a pool worker completes audio_process on its task
WorkerFinish ==
    /\ pc \in {"pool", "abort"}
    /\ \E j \in running :
          LET i   == sub[1] + j
              res == AudioProcess(inp, i)
          IN  /\ running' = running \ {j}
              /\ calls' = calls \cup {i}
              /\ ncalls' = ncalls + 1
              /\ nreads' = nreads + (IF res.read THEN 1 ELSE 0)
    /\ UNCHANGED <<cmp, inp, pc, run, dirs, files, istep, start, end, sub, out,
                   started, w, error, written, nskipped, chunks>>

\* lines 207-208: pending.result() of the next future, appended to out; an
\* exception of the task is raised here and leaves the `with` block
Collect ==
    /\ pc = "pool"
    /\ Len(out) < sub[2] - sub[1]
    /\ LET j   == NextPending(out)
           i   == sub[1] + j
           res == AudioProcess(inp, i)
       IN  /\ TaskDone(j)
           /\ IF res.error # "none"
              THEN /\ error' = res.error
                   /\ pc' = "abort"
                   /\ UNCHANGED <<out, w>>
              ELSE /\ out' = Append(out, i)
                   /\ w' = 0
                   /\ pc' = IF Len(out') = sub[2] - sub[1] THEN "write" ELSE "pool"
                   /\ UNCHANGED error
    /\ UNCHANGED <<cmp, inp, run, dirs, files, istep, start, end, sub, started,
                   running, calls, ncalls, nreads, written, nskipped, chunks>>

\* ProcessPoolExecutor.__exit__ after an exception: shutdown(wait=True) lets the
\* workers finish every submitted task, then the exception propagates
PoolAbort ==
    /\ pc = "abort"
    /\ started = sub[2] - sub[1]
    /\ running = {}
    /\ pc' = "failed"
    /\ UNCHANGED <<cmp, inp, run, dirs, files, istep, start, end, sub, out, started,
                   running, w, error, calls, ncalls, nreads, written, nskipped,
                   chunks>>

\* lines 216-359: one iteration of `for name, data in out`
WritePair ==
    /\ pc = "write"
    /\ w < Len(out)
    /\ LET st == WriteSegments(inp, out[w + 1], 0, TheFolder,
                               <<files, written, nskipped>>)
       IN  /\ files' = st[1]
           /\ written' = st[2]
           /\ nskipped' = st[3]
    /\ w' = w + 1
    /\ UNCHANGED <<cmp, inp, pc, run, dirs, istep, start, end, sub, out, started,
                   running, error, calls, ncalls, nreads, chunks>>

\* lines 361-363: del out; start += step; end += step
EndChunk ==
    /\ pc = "write"
    /\ w = Len(out)
    /\ out' = <<>>
    /\ w' = 0
    /\ start' = start + step
    /\ end' = end + step
    /\ istep' = istep + 1
    /\ pc' = "loop"
    /\ UNCHANGED <<cmp, inp, run, dirs, files, sub, started, running, error,
                   calls, ncalls, nreads, written, nskipped, chunks>>

\* create_tf_record is called again with the same lists and configuration
SecondRun ==
    /\ pc = "done"
    /\ run = 1
    /\ run' = 2
    /\ pc' = "start"
    /\ calls' = {}
    /\ ncalls' = 0
    /\ nreads' = 0
    /\ written' = <<>>
    /\ nskipped' = 0
    /\ chunks' = <<>>
    /\ UNCHANGED <<cmp, inp, dirs, files, istep, start, end, sub, out, started,
                   running, w, error>>

\* ------------------------------------------- the folder name on its own
\* values of the recognized options
SegmentValues == {[tenths |-> 20, float |-> TRUE], [tenths |-> 15, float |-> TRUE],
                  [tenths |-> 20, float |-> FALSE]}
SplitValues == {800, 805, 900}
NormalizeValues == {"z-score", "none"}
TopDbValues == {20, 30}
SampleRates == {16000, 8000}
HopLengths == {64, 128}
WinLengths == {256, 512}

AllArgs ==
    [save_path : {DefaultArgs.save_path}, segment : SegmentValues,
     split : SplitValues, normalize : NormalizeValues,
     segment_normalization : BOOLEAN, fft : BOOLEAN, top_db : TopDbValues,
     sample_rate : SampleRates, hop_length : HopLengths,
     win_length : WinLengths, center : BOOLEAN]

InitFolder ==
    /\ inp = [n |-> 1, kind |-> "ok", pos |-> 0, parallel |-> FALSE,
              cpu |-> PoolThreshold, fft |-> FALSE, debug |-> FALSE]
    /\ Idle
    /\ \E a \in {DefaultArgs, [DefaultArgs EXCEPT !.fft = TRUE, !.split = 805]},
          b \in AllArgs, d \in BOOLEAN :
          cmp = [a |-> a, b |-> b, debug |-> d, fa |-> "", fb |-> "", done |-> FALSE]

\* lines 161-164 for two DatasetVoiceBank objects with the same save_path and
\* debug flag
NameFolders ==
    /\ ~cmp.done
    /\ cmp' = [cmp EXCEPT !.fa = Folder(cmp.a, cmp.debug),
                          !.fb = Folder(cmp.b, cmp.debug), !.done = TRUE]
    /\ UNCHANGED <<inp, pc, run, dirs, files, istep, start, end, sub, out,
                   started, running, w, error, calls, ncalls, nreads, written,
                   nskipped, chunks>>

NextFolder == NameFolders

SpecFolder == InitFolder /\ [][NextFolder]_vars

Next ==
    \/ Begin
    \/ LoopHead
    \/ ProcessPair
    \/ WorkerStart
    \/ WorkerFinish
    \/ Collect
    \/ PoolAbort
    \/ WritePair
    \/ EndChunk
    \/ SecondRun

Spec == Init /\ [][Next]_vars

\* ---------------------------------------------------------------- claims
Len0 == ListLen(inp)
FirstRunDone == pc = "done" /\ run = 1

\* C1 (as claimed): a list of N pairs is processed in ceil(N/100) chunks of at
\* most 100 pairs each; 250 pairs give the chunks 100, 100, 50.  Stated for
\* the lists of at least 100 pairs (the shorter lists are the case of C3).
C1_Original ==
    (FirstRunDone /\ Len0 >= step) =>
        /\ Len(chunks) = (Len0 + step - 1) \div step
        /\ \A k \in 1..Len(chunks) : chunks[k] <= step
        /\ (Len0 = 2 * step + step \div 2 => chunks = <<step, step, step \div 2>>)

\* C1 (amended): a list of N pairs is processed in floor(N/100) chunks, in list
\* order; every chunk but the last has 100 pairs and the last has the rest,
\* 100 + N mod 100 pairs; 250 pairs give the chunks 100, 150; fewer than 100
\* pairs give no chunk.
C1_Chunks ==
    /\ \A k \in 1..Len(chunks) :
           chunks[k] = IF k < Len0 \div step THEN step ELSE Len0 - (k - 1) * step
    /\ Len(chunks) <= Len0 \div step
    /\ pc = "done" => Len(chunks) = Len0 \div step
    /\ pc \in {"process", "pool", "abort", "write"} =>
           /\ sub[1] = (Len(chunks) - 1) * step
           /\ sub[2] = sub[1] + chunks[Len(chunks)]

C1_Witness ==
    FirstRunDone /\ Len0 = 2 * step + step \div 2 /\ chunks = <<step, step + step \div 2>>

\* C2 (as claimed): out never holds more than 100 results.
C2_Original == Len(out) <= step

\* C2 (amended): out never holds more than 199 results (the last chunk takes
\* the remainder of the list), all of them results of the current chunk, and
\* out is empty whenever a step of the chunk loop starts.
C2_Held ==
    /\ Len(out) <= 2 * step - 1
    /\ \A k \in 1..Len(out) : out[k] \in (sub[1] + 1)..sub[2]
    /\ pc \in {"loop", "done"} => out = <<>>

C2_Witness == pc = "write" /\ w = Len(out) /\ Len(out) = 2 * step - 1

\* C3 (as claimed): a first run over an empty output folder that raises no error
\* has called audio_process exactly once on every pair of the list and has
\* written a record for every segment of every pair.
C3_Claim ==
    (FirstRunDone /\ ~inp.debug) =>
        /\ calls = 1..inp.n
        /\ ncalls = inp.n
        /\ \A i \in 1..inp.n : \A k \in 0..(SegCount(i) - 1) :
               \E p \in DOMAIN files : files[p] = Example(inp, i, k)

\* C4: no step overwrites, changes or removes an existing record file; a
\* second run over the same input writes nothing, leaves files and folders as
\* the first run left them, does not raise, and skips every existing path.
C4_Idempotent ==
    [][ /\ \A p \in DOMAIN files : IsFile(files', p) /\ files'[p] = files[p]
        /\ run = 2 =>
              /\ files' = files
              /\ dirs' = dirs
              /\ written' = <<>>
              /\ pc' # "failed"
              /\ (pc' = "done" => nskipped' >= Cardinality(DOMAIN files)) ]_vars

C4_Witness ==
    run = 2 /\ pc = "done" /\ nskipped > step /\ nskipped >= Cardinality(DOMAIN files)

\* C5 (as claimed): two configurations with the same save_path that differ in a
\* recognized option get different output folders.
C5_Original ==
    (cmp.done /\ \E f \in {"sample_rate", "hop_length", "win_length", "top_db",
                            "segment", "normalize", "segment_normalization",
                            "fft", "center", "split"} : cmp.a[f] # cmp.b[f])
        => cmp.fa # cmp.fb

\* C5 (amended): two configurations with the same save_path and debug flag get
\* the same output folder exactly when they agree on segment, int(split*100),
\* normalize, segment_normalization, fft and top_db; sample_rate, hop_length,
\* win_length, center and the rest of split are not part of the folder name.
C5_Folder ==
    cmp.done =>
        ((cmp.fa = cmp.fb) <=>
            /\ cmp.a.segment = cmp.b.segment
            /\ cmp.a.split \div 10 = cmp.b.split \div 10
            /\ cmp.a.normalize = cmp.b.normalize
            /\ cmp.a.segment_normalization = cmp.b.segment_normalization
            /\ cmp.a.fft = cmp.b.fft
            /\ cmp.a.top_db = cmp.b.top_db)

C5_Witness ==
    /\ cmp.done
    /\ cmp.fa = cmp.fb
    /\ cmp.fa = "out/records_seg_2-0_train_80_norm_z-score_segNorm_False_fft_True_topdB_20"
    /\ cmp.a.sample_rate # cmp.b.sample_rate
    /\ cmp.a.split # cmp.b.split

\* the base filename without directory and without extension
Stem(filename) ==
    LET base  == Last(Split(filename, "/"))
        parts == Split(base, ".")
    IN  IF Len(parts) = 1 THEN Str(base)
        ELSE Str(SubSeq(base, 1, Len(base) - Len(Last(parts)) - 1))

\* C6 (as claimed): every record is written at
\* {output_dir}/{prefix}_{name}_{segment_index}.tfrecords with name the base
\* filename without directory and extension.
C6_Original ==
    \A p \in DOMAIN files :
        p = TfrecordFilename(TheFolder, Prefix,
                             Stem(CleanFilename(inp, files[p][2])), files[p][3])

\* C6 (amended): every record is written in the output folder at
\* {output_dir}/{prefix}_{a}_{b}_{segment_index}.tfrecords, where a and b are
\* the first two dot-separated parts of the clean base filename (x1.wav gives
\* x1_wav) and segment_index counts the pair's segments from 0.
C6_Path ==
    [][ \A p \in (DOMAIN files') \ (DOMAIN files) :
          LET i    == files'[p][2]
              k    == files'[p][3]
              base == CleanBase(inp, i)
          IN  /\ TheFolder \in dirs
              /\ Len(base) >= 3
              /\ k \in 0..(SegCount(i) - 1)
              /\ p = TheFolder \o "/" \o Prefix \o "_" \o base[1] \o "_"
                      \o base[3] \o "_" \o ToString(k) \o ".tfrecords" ]_vars

C6_Witness ==
    /\ "out/records_seg_2-0_train_80_norm_z-score_segNorm_False_fft_False_topdB_20/train_p1_wav_0.tfrecords"
           \in DOMAIN files
    /\ "out/records_seg_2-0_train_80_norm_z-score_segNorm_False_fft_False_topdB_20/train_p1_wav_1.tfrecords"
           \in DOMAIN files

\* clean and noisy base filenames of pair i differ
Mismatched(i) == CleanBase(inp, i) # NoisyBase(inp, i)

\* the pairs of the list whose base filenames differ (the lists hold at most
\* one defective pair, at inp.pos)
BadPairs == {i \in {inp.pos} \cap 1..Len0 : Mismatched(i)}

\* C7 (as claimed): a list with a mismatched pair makes the run fail, and when
\* it fails no audio has been read, the output folder has not been created
\* and no record has been written.  Stated for the lists of at least 100
\* pairs (the shorter lists are the case of C3).
C7_Original ==
    (run = 1 /\ BadPairs # {} /\ Len0 >= step) =>
        /\ pc # "done"
        /\ pc = "failed" =>
              /\ error = "AssertionError"
              /\ nreads = 0
              /\ TheFolder \notin dirs
              /\ files = <<>>

\* C7 (amended): the check is made per pair, at the start of audio_process: a
\* mismatched pair is never read, never returned and never written, and once
\* audio_process was called on it the run writes nothing more and ends with
\* the assertion error; by then the folder exists and every other pair
\* audio_process was called on has been read.
C7_Validation ==
    /\ nreads <= ncalls
    /\ \A i \in BadPairs :
          /\ \A k \in 1..Len(out) : out[k] # i
          /\ \A p \in DOMAIN files : files[p][2] # i
          /\ i \in calls =>
                /\ TheFolder \in dirs
                /\ nreads = ncalls - 1
                /\ pc \in {"pool", "abort", "failed"}
                /\ pc = "failed" => error = "AssertionError"
          /\ pc = "done" => Len0 < step

C7_Witness ==
    /\ pc = "failed" /\ error = "AssertionError"
    /\ BadPairs # {}
    /\ TheFolder \in dirs
    /\ nreads > step
    /\ files # <<>>

\* the pair at the defective position makes audio_process raise
FailingPairs == {i \in {inp.pos} \cap 1..Len0 : AudioProcess(inp, i).error # "none"}

\* C8: no pair is processed twice; once audio_process has failed on a pair the
\* run never writes again and ends failed with that error, with records of
\* earlier chunks only; a run that completes has met no failure.
C8_Abort ==
    /\ ncalls = Cardinality(calls)
    /\ started <= sub[2] - sub[1]
    /\ \A i \in FailingPairs :
          i \in calls =>
             /\ pc \in {"pool", "abort", "failed"}
             /\ w = 0
             /\ \A p \in DOMAIN files : files[p][2] <= sub[1]
             /\ Len(written) = Cardinality(DOMAIN files)
             /\ pc = "failed" => error = AudioProcess(inp, i).error
    /\ pc \in {"abort", "failed"} <=> error # "none"
    /\ pc = "done" => calls \cap FailingPairs = {}

C8_Witness ==
    /\ pc = "failed" /\ inp.parallel /\ error = "DecodeError"
    /\ ncalls > step
    /\ Cardinality(DOMAIN files) >= step

\* record content x comes before record content y in list order
Before(x, y) == x[2] < y[2] \/ (x[2] = y[2] /\ x[3] < y[3])

\* the segments of the pairs 1..last
SegmentsUpTo(last) ==
    {s \in (1..last) \X (0..(MaxSeg - 1)) : s[2] < SegCount(s[1])}

\* C9: results are collected in submission order whatever the order in which
\* the workers finish, nothing of a chunk is written while the pool is at
\* work on it, and a completed run, parallel or sequential, has written or
\* skipped every segment of the processed pairs, the written paths being in
\* the order of the list (pair by pair, segment by segment).
C9_Order ==
    /\ \A k \in 1..Len(out) : out[k] = sub[1] + k
    /\ (pc \in {"pool", "abort"} /\ run = 1) =>
          /\ w = 0
          /\ \A p \in DOMAIN files : files[p][2] <= sub[1]
    /\ pc = "write" => Len(out) = sub[2] - sub[1]
    /\ FirstRunDone =>
          /\ \A a \in 1..(Len(written) - 1) :
                Before(files[written[a]], files[written[a + 1]])
          /\ Len(written) = Cardinality(DOMAIN files)
          /\ Len(written) + nskipped =
                Cardinality(SegmentsUpTo(IF Len0 >= step THEN Len0 ELSE 0))

C9_Witness ==
    /\ inp.parallel /\ pc = "pool"
    /\ Len(out) > 0
    /\ \E j \in running : TaskDone(j + 1)

\* C10 (as claimed): on a first run over an empty output folder with pairwise
\* distinct base filenames no segment is skipped as already existing.
C10_Claim ==
    (run = 1 /\ nskipped > 0) =>
        \E i, j \in 1..Len0 : i # j /\ CleanBase(inp, i) = CleanBase(inp, j)

====
